---- MODULE Spec2Model ----
(***************************************************************************)
(* Seating-plan generation engine of SeatyrBolt (utils/seatingAlgorithm.ts,*)
(* second, effective set of definitions): validateConstraints,             *)
(* detectConstraintConflicts, buildAtomicGroups, applyDiversityStrategy,   *)
(* generateSinglePlan, optimizeSeatingOrder, scorePlan,                    *)
(* isPlanSufficientlyUnique and the orchestrator generateSeatingPlans.     *)
(*                                                                         *)
(* A guest is [name, count]; a table is [id, seats]; the constraint map is *)
(* a function name -> (name -> "must" | "cannot" | ""); the adjacency map  *)
(* is a function name -> sequence of names; the assignment map is a        *)
(* function name -> CSV string, kept as the sequence of its comma-         *)
(* separated tokens.  Object keys are iterated in insertion order, taken   *)
(* to be the order of AllNames.                                            *)
(***************************************************************************)
EXTENDS Integers, Sequences, FiniteSets

\* ------------------------------------------------------------------ bounds
MaxGuests == 2
MaxCount == 2
MaxSeats == 2

\* ------------------------------------------------------- program constants
MaxPlansFree == 10
MaxPlansPremium == 30
MaxAttemptsFree == 200
MaxAttemptsPremium == 500
YieldEvery == 50
PriorityWeight == 25
BaseThresholdPct == 80
ThresholdStepPct == 5
SeatPoints == 10
MustPoints == 100
CannotPenalty == 200
AdjacentPoints == 50

\* --------------------------------------------------------- generic helpers
AllNames == <<"Ann", "Bride", "Cy">>

NameSet == {AllNames[i] : i \in 1..Len(AllNames)}

NameIndex(n) == CHOOSE i \in 1..Len(AllNames) : AllNames[i] = n

Range(s) == {s[i] : i \in 1..Len(s)}

RECURSIVE SumSeq(_)
SumSeq(s) == IF s = <<>> THEN 0 ELSE Head(s) + SumSeq(Tail(s))

RECURSIVE FlattenSeq(_)
FlattenSeq(ss) == IF ss = <<>> THEN <<>> ELSE Head(ss) \o FlattenSeq(Tail(ss))

Reverse(s) == [i \in 1..Len(s) |-> s[Len(s) + 1 - i]]

IndexPerms(n) ==
    {q \in [1..n -> 1..n] : \A i, j \in 1..n : i # j => q[i] # q[j]}

\* every order in which the Fisher-Yates shuffle can return the elements
shuffleArray(array) ==
    {[i \in 1..Len(array) |-> array[p[i]]] : p \in IndexPerms(Len(array))}

\* Array.prototype.sort (stable) by an integer key, smaller key first: an
\* element lands behind every element with a smaller key and behind the
\* earlier elements with an equal key
StableSort(s, key) ==
    LET n == Len(s)
        Before(j, i) == key[j] < key[i] \/ (key[j] = key[i] /\ j < i)
        Position(i) == 1 + Cardinality({j \in 1..n : Before(j, i)})
    IN SubSeq([r \in 1..n |-> s[CHOOSE i \in 1..n : Position(i) = r]], 1, n)

\* keys of a JS object in iteration (insertion) order
KeysOf(f) ==
    LET idx == {NameIndex(n) : n \in DOMAIN f}
        RECURSIVE Asc(_, _)
        Asc(i, acc) == IF i > Len(AllNames) THEN acc
                       ELSE Asc(i + 1, IF i \in idx THEN Append(acc, AllNames[i])
                                                   ELSE acc)
    IN Asc(1, <<>>)

\* obj[k]?.[k2] : "undefined" when either key is missing
Lookup(constraints, a, b) ==
    IF a \in DOMAIN constraints /\ b \in DOMAIN constraints[a]
    THEN constraints[a][b] ELSE "undefined"

\* ------------------------------------------------------------------- state
VARIABLES guests, tables, constraints, adjacents, assignments, isPremium,
          pc, ran, errors, conflicts, atomicGroups, plans, attempts, lastStrategy,
          result,
          ufState, ufRelated, ufTouched,
          selectedGuestId,
          stateConstraints, seatingPlans, seatingPlansFrom, uiActions

vars == <<guests, tables, constraints, adjacents, assignments, isPremium,
          pc, ran, errors, conflicts, atomicGroups, plans, attempts, lastStrategy,
          result, ufState, ufRelated, ufTouched, selectedGuestId,
          stateConstraints, seatingPlans, seatingPlansFrom, uiActions>>

\* an OptimizedUnionFind instance with the history of the calls made on it
ufVars == <<ufState, ufRelated, ufTouched>>

\* the application state besides the inputs: the grid's selection, the
\* constraint map, the stored plans and the inputs they were computed from,
\* and the number of user actions so far
appVars == <<selectedGuestId, stateConstraints, seatingPlans, seatingPlansFrom,
             uiActions>>

inputVars == <<guests, tables, constraints, adjacents, assignments, isPremium>>

guestNames == {guests[i].name : i \in 1..Len(guests)}

GuestOf(name) == guests[CHOOSE i \in 1..Len(guests) : guests[i].name = name]

CountOf(name) == IF name \in guestNames THEN GuestOf(name).count ELSE 0

\* ------------------------------------------------- CSV tokens of a Record<string,string>
NaN == -1

Digits == <<"1", "2", "3", "4", "5">>

\* parseInt(token.trim()) on a token of the CSV string
ParseInt(tok) ==
    IF \E i \in 1..Len(Digits) : Digits[i] = tok
    THEN CHOOSE i \in 1..Len(Digits) : Digits[i] = tok
    ELSE NaN

\* Number(token): the empty token converts to 0, a word to NaN
ToNumber(tok) ==
    IF \E i \in 1..Len(Digits) : Digits[i] = tok
    THEN CHOOSE i \in 1..Len(Digits) : Digits[i] = tok
    ELSE IF tok = "" THEN 0 ELSE NaN

\* truthiness of assignments[name]: a missing key and the empty string are falsy
HasAssignment(name) ==
    name \in DOMAIN assignments /\ assignments[name] # <<"">>

\* assignments[name].split(',').map(parseInt).filter(id => !isNaN(id))
ParsedTableIds(name) ==
    LET ids == [i \in 1..Len(assignments[name]) |-> ParseInt(assignments[name][i])]
        NotNaN(id) == id # NaN
    IN SelectSeq(ids, NotNaN)

\* assignments[name].split(',').map(Number)
NumberTableIds(name) ==
    [i \in 1..Len(assignments[name]) |-> ToNumber(assignments[name][i])]

TableIds == {tables[i].id : i \in 1..Len(tables)}

ErrorOf(message) == [type |-> "error", message |-> message]

\* -------------------------------------------------------- validateConstraints
totalGuestCount == SumSeq([i \in 1..Len(guests) |-> guests[i].count])

totalSeats == SumSeq([i \in 1..Len(tables) |-> tables[i].seats])

CapacityErrors ==
    IF totalGuestCount > totalSeats THEN <<ErrorOf("not-enough-seats")>> ELSE <<>>

InvalidTableErrors ==
    LET keys == KeysOf(assignments)
        Missing(id) == id \notin TableIds
        PerGuest(name) ==
            [i \in 1..Len(SelectSeq(ParsedTableIds(name), Missing)) |->
                ErrorOf("invalid-table")]
    IN FlattenSeq([k \in 1..Len(keys) |-> PerGuest(keys[k])])

\* tables1.some(t => tables2.includes(t)); includes matches NaN with NaN
Overlapping(name1, name2) ==
    Range(NumberTableIds(name1)) \cap Range(NumberTableIds(name2)) # {}

\* validateConstraints without its must-versus-assignment check
MustAssignmentErrorsSkipped == <<>>

MustAssignmentErrors ==
    LET keys == KeysOf(constraints)
        PerPair(g1, g2) ==
            IF /\ constraints[g1][g2] = "must"
               /\ HasAssignment(g1)
               /\ HasAssignment(g2)
               /\ ~Overlapping(g1, g2)
            THEN <<ErrorOf("must-assignment-conflict")>> ELSE <<>>
        PerGuest(g1) ==
            LET inner == KeysOf(constraints[g1])
            IN FlattenSeq([k \in 1..Len(inner) |-> PerPair(g1, inner[k])])
    IN FlattenSeq([k \in 1..Len(keys) |-> PerGuest(keys[k])])

validateConstraints == CapacityErrors \o InvalidTableErrors \o MustAssignmentErrors

HasErrorKind(errs) == \E i \in 1..Len(errs) : errs[i].type = "error"

\* --------------------------------------------------------- OptimizedUnionFind
\* parent and rank maps; keys is the insertion order of the parent map
EmptyUF == [parent |-> <<>>, rank |-> <<>>, keys |-> <<>>]

MapSet(f, k, v) == [x \in DOMAIN f \cup {k} |-> IF x = k THEN v ELSE f[x]]

RECURSIVE UFFind(_, _)
UFFind(uf, key) ==
    LET u1 == IF key \in DOMAIN uf.parent THEN uf
              ELSE [parent |-> MapSet(uf.parent, key, key),
                    rank   |-> MapSet(uf.rank, key, 0),
                    keys   |-> Append(uf.keys, key)]
    IN IF u1.parent[key] # key
       THEN LET r == UFFind(u1, u1.parent[key])
            IN [uf   |-> [r.uf EXCEPT !.parent = MapSet(r.uf.parent, key, r.root)],
                root |-> r.root]
       ELSE [uf |-> u1, root |-> key]

\* union attaching the first key, not its root, below the second root
UFUnionLinkingKey(uf, key1, key2) ==
    LET f1 == UFFind(uf, key1)
        f2 == UFFind(f1.uf, key2)
    IN IF f1.root = f2.root THEN f2.uf
       ELSE [f2.uf EXCEPT !.parent = MapSet(f2.uf.parent, key1, f2.root)]


UFUnion(uf, key1, key2) ==
    LET f1 == UFFind(uf, key1)
        f2 == UFFind(f1.uf, key2)
        u  == f2.uf
        root1 == f1.root
        root2 == f2.root
        rank1 == u.rank[root1]
        rank2 == u.rank[root2]
    IN IF root1 = root2 THEN u
       ELSE IF rank1 < rank2
            THEN [u EXCEPT !.parent = MapSet(u.parent, root1, root2)]
       ELSE IF rank1 > rank2
            THEN [u EXCEPT !.parent = MapSet(u.parent, root2, root1)]
       ELSE [u EXCEPT !.parent = MapSet(u.parent, root2, root1),
                      !.rank = MapSet(u.rank, root1, rank1 + 1)]

RECURSIVE Dedup(_, _)
Dedup(s, acc) ==
    IF s = <<>> THEN acc
    ELSE Dedup(Tail(s), IF Head(s) \in Range(acc) THEN acc ELSE Append(acc, Head(s)))

\* getGroups: one list per root, in order of first appearance, members in key order
UFGetGroups(uf) ==
    LET rootOf == [i \in 1..Len(uf.keys) |-> UFFind(uf, uf.keys[i]).root]
        roots == Dedup(rootOf, <<>>)
        Members(r) ==
            LET idx == [i \in 1..Len(uf.keys) |-> i]
                InGroup(i) == rootOf[i] = r
                sel == SelectSeq(idx, InGroup)
            IN [j \in 1..Len(sel) |-> uf.keys[sel[j]]]
    IN [g \in 1..Len(roots) |-> Members(roots[g])]

\* guests.forEach(g => uf.find(g.name))
RECURSIVE UFFindAll(_, _)
UFFindAll(uf, names) ==
    IF names = <<>> THEN uf
    ELSE UFFindAll(UFFind(uf, Head(names)).uf, Tail(names))

\* the (key1, key2, value) entries of the constraint map in iteration order
ConstraintEntries ==
    LET keys == KeysOf(constraints)
        PerGuest(g1) ==
            LET inner == KeysOf(constraints[g1])
            IN [k \in 1..Len(inner) |-> <<g1, inner[k], constraints[g1][inner[k]]>>]
    IN FlattenSeq([k \in 1..Len(keys) |-> PerGuest(keys[k])])

\* the (key1, key2) entries of the adjacency map in iteration order
AdjacentEntries ==
    LET keys == KeysOf(adjacents)
        PerGuest(g1) == [k \in 1..Len(adjacents[g1]) |-> <<g1, adjacents[g1][k]>>]
    IN FlattenSeq([k \in 1..Len(keys) |-> PerGuest(keys[k])])

RECURSIVE UnionMust(_, _)
UnionMust(uf, entries) ==
    IF entries = <<>> THEN uf
    ELSE UnionMust(IF Head(entries)[3] = "must"
                   THEN UFUnion(uf, Head(entries)[1], Head(entries)[2])
                   ELSE uf,
                   Tail(entries))

\* buildAtomicGroups without the adjacency unions
UnionAdjacentSkipped(uf, entries) == uf

RECURSIVE UnionAdjacent(_, _)
UnionAdjacent(uf, entries) ==
    IF entries = <<>> THEN uf
    ELSE UnionAdjacent(UFUnion(uf, Head(entries)[1], Head(entries)[2]), Tail(entries))

guestNameSeq == [i \in 1..Len(guests) |-> guests[i].name]

\* -------------------------------------------------- detectConstraintConflicts
ConflictOf(type, severity, affected) ==
    [type |-> type, severity |-> severity, affectedGuests |-> affected]

\* Array.prototype.indexOf, 0-based, -1 when absent
IndexOf(s, x) ==
    IF x \in Range(s) THEN (CHOOSE i \in 1..Len(s) :
                               s[i] = x /\ \A j \in 1..(i - 1) : s[j] # x) - 1
    ELSE -1

\* Array.prototype.slice(start): a negative start counts from the end
SliceFrom(s, start) ==
    LET from == IF start < 0 THEN (IF Len(s) + start < 0 THEN 0 ELSE Len(s) + start)
                ELSE start
    IN SubSeq(s, from + 1, Len(s))

RECURSIVE detectCycle(_, _, _)
RECURSIVE CycleLoop(_, _, _, _)
detectCycle(guestName, path, st) ==
    LET st1 == [st EXCEPT !.visited = @ \cup {guestName},
                          !.recursionStack = @ \cup {guestName}]
        others == IF guestName \in DOMAIN constraints
                  THEN KeysOf(constraints[guestName]) ELSE <<>>
        st2 == CycleLoop(guestName, path, others, st1)
    IN [st2 EXCEPT !.recursionStack = @ \ {guestName}]

CycleLoop(guestName, path, others, st) ==
    IF others = <<>> THEN st
    ELSE LET other == Head(others)
             cycle == Append(SliceFrom(path, IndexOf(path, other)), other)
             next ==
                 IF constraints[guestName][other] = "must" /\ other \in guestNames
                 THEN IF other \in st.recursionStack
                      THEN [st EXCEPT !.conflicts =
                               Append(@, ConflictOf("circular", "high", cycle))]
                      ELSE IF other \notin st.visited
                           THEN detectCycle(other, Append(path, guestName), st)
                           ELSE st
                 ELSE st
         IN CycleLoop(guestName, path, Tail(others), next)

RECURSIVE CycleRoots(_, _)
CycleRoots(names, st) ==
    IF names = <<>> THEN st
    ELSE CycleRoots(Tail(names),
                    IF Head(names) \notin st.visited
                    THEN detectCycle(Head(names), <<Head(names)>>, st)
                    ELSE st)

CircularConflicts ==
    CycleRoots(guestNameSeq,
               [visited |-> {}, recursionStack |-> {}, conflicts |-> <<>>]).conflicts

RECURSIVE ContradictionLoop(_, _, _)
ContradictionLoop(entries, checkedPairs, acc) ==
    IF entries = <<>> THEN acc
    ELSE LET guest1 == Head(entries)[1]
             guest2 == Head(entries)[2]
             constraint1 == Head(entries)[3]
             pairKey == {guest1, guest2}
             reverseConstraint == Lookup(constraints, guest2, guest1)
             contradictory ==
                 \/ constraint1 = "must" /\ reverseConstraint = "cannot"
                 \/ constraint1 = "cannot" /\ reverseConstraint = "must"
         IN IF pairKey \in checkedPairs
            THEN ContradictionLoop(Tail(entries), checkedPairs, acc)
            ELSE ContradictionLoop(Tail(entries), checkedPairs \cup {pairKey},
                     IF contradictory
                     THEN Append(acc, ConflictOf("impossible", "critical",
                                                 <<guest1, guest2>>))
                     ELSE acc)

\* the contradiction pass without its set of checked pairs: one conflict for
\* each contradictory entry of the map
ImpossibleConflictsPerEntry ==
    LET Contradicts(e) ==
            \/ e[3] = "must" /\ Lookup(constraints, e[2], e[1]) = "cannot"
            \/ e[3] = "cannot" /\ Lookup(constraints, e[2], e[1]) = "must"
        sel == SelectSeq(ConstraintEntries, Contradicts)
    IN [i \in 1..Len(sel) |->
           ConflictOf("impossible", "critical", <<sel[i][1], sel[i][2]>>)]


ImpossibleConflicts == ContradictionLoop(ConstraintEntries, {}, <<>>)

maxTableCapacity ==
    LET caps == {tables[i].seats : i \in 1..Len(tables)} \cup {0}
    IN CHOOSE m \in caps : \A c \in caps : c <= m

MustGroups == UFGetGroups(UnionMust(UFFindAll(EmptyUF, guestNameSeq), ConstraintEntries))

GroupSize(group) == SumSeq([i \in 1..Len(group) |-> CountOf(group[i])])

\* the capacity pass run on groups that also follow the adjacency edges
CapacityConflictsWithAdjacency ==
    LET groups == UFGetGroups(UnionAdjacent(
                      UnionMust(UFFindAll(EmptyUF, guestNameSeq), ConstraintEntries),
                      AdjacentEntries))
        Over(i) == GroupSize(groups[i]) > maxTableCapacity
        sel == SelectSeq([i \in 1..Len(groups) |-> i], Over)
    IN [j \in 1..Len(sel) |->
           ConflictOf("capacity_violation", "critical", groups[sel[j]])]


CapacityConflicts ==
    LET groups == MustGroups
        Over(i) == GroupSize(groups[i]) > maxTableCapacity
        sel == SelectSeq([i \in 1..Len(groups) |-> i], Over)
    IN [j \in 1..Len(sel) |->
           ConflictOf("capacity_violation", "critical", groups[sel[j]])]

detectConstraintConflicts ==
    IF Len(guests) = 0 \/ Len(tables) = 0 THEN <<>>
    ELSE CircularConflicts \o ImpossibleConflicts \o CapacityConflicts

\* the severity filter selecting the wrong severity
CriticalConflictsAsHigh(cs) ==
    LET IsHigh(c) == c.severity = "high" IN SelectSeq(cs, IsHigh)

CriticalConflicts(cs) ==
    LET IsCritical(c) == c.severity = "critical" IN SelectSeq(cs, IsCritical)

\* ----------------------------------------------------------- buildAtomicGroups
\* names matching /bride|groom/i
PriorityNames == {"Bride"}

IsGuestName(name) == name \in guestNames

constraintCountOf(units) ==
    SumSeq([i \in 1..Len(units) |->
               IF units[i] \in DOMAIN constraints
               THEN Cardinality(DOMAIN constraints[units[i]]) ELSE 0])

AtomicGroupOf(groupNames) ==
    LET units == SelectSeq(groupNames, IsGuestName)
    IN [units           |-> units,
        totalCount      |-> GroupSize(units),
        priority        |-> IF Range(units) \cap PriorityNames # {}
                            THEN PriorityWeight ELSE 0,
        constraintCount |-> constraintCountOf(units)]

\* key of the comparator (b.priority - a.priority) || (b.totalCount - a.totalCount)
PriorityThenSizeKey(groups) ==
    [i \in 1..Len(groups) |->
        0 - (groups[i].priority * (totalGuestCount + 1) + groups[i].totalCount)]

buildAtomicGroups ==
    LET uf0 == UFFindAll(EmptyUF, guestNameSeq)
        uf1 == UnionMust(uf0, ConstraintEntries)
        uf2 == UnionAdjacent(uf1, AdjacentEntries)
        names == UFGetGroups(uf2)
        groups == [i \in 1..Len(names) |-> AtomicGroupOf(names[i])]
    IN StableSort(groups, PriorityThenSizeKey(groups))

\* ------------------------------------------------------ applyDiversityStrategy
strategies == <<"shuffle", "reverse", "size-first", "size-last", "random-pairs",
                "priority-first", "constraint-heavy-first">>

\* the loop's strategy variable before the first attempt has declared it
NoStrategy == "none"

\* an index that advances once every two attempts
StrategyOfHalfPace(n) == strategies[((n \div 2) % Len(strategies)) + 1]

\* strategies[attempts % strategies.length], 0-based
StrategyOf(n) == strategies[(n % Len(strategies)) + 1]

applyDiversityStrategy(groups, strategy) ==
    CASE strategy = "shuffle" -> shuffleArray(groups)
      [] strategy = "reverse" -> {Reverse(groups)}
      [] strategy = "size-first" ->
            {StableSort(groups, [i \in 1..Len(groups) |-> 0 - groups[i].totalCount])}
      [] strategy = "size-last" ->
            {StableSort(groups, [i \in 1..Len(groups) |-> groups[i].totalCount])}
      [] strategy = "random-pairs" -> shuffleArray(groups)
      [] strategy = "priority-first" ->
            {StableSort(groups, PriorityThenSizeKey(groups))}
      [] strategy = "constraint-heavy-first" ->
            {StableSort(groups, [i \in 1..Len(groups) |-> 0 - groups[i].constraintCount])}
      [] OTHER -> {groups}

\* --------------------------------------------------------- canPlaceGroupOnTable
\* canPlaceGroupOnTable without its occupancy test
canPlaceIgnoringCapacity(group, tableSeats, tableCapacity) ==
    \A i \in 1..Len(group), j \in 1..Len(tableSeats) :
        /\ Lookup(constraints, group[i], tableSeats[j]) # "cannot"
        /\ Lookup(constraints, tableSeats[j], group[i]) # "cannot"

\* canPlaceGroupOnTable without its cannot test
canPlaceIgnoringCannot(group, tableSeats, tableCapacity) ==
    ~(GroupSize(tableSeats) + GroupSize(group) > tableCapacity)


canPlaceGroupOnTable(group, tableSeats, tableCapacity) ==
    LET currentOccupancy == GroupSize(tableSeats)
        groupSize == GroupSize(group)
    IN /\ ~(currentOccupancy + groupSize > tableCapacity)
       /\ \A i \in 1..Len(group), j \in 1..Len(tableSeats) :
              /\ Lookup(constraints, group[i], tableSeats[j]) # "cannot"
              /\ Lookup(constraints, tableSeats[j], group[i]) # "cannot"

\* --------------------------------------------------------- optimizeSeatingOrder
Without(s, x) == LET Keep(y) == y # x IN SelectSeq(s, Keep)

RECURSIVE FollowAdjacency(_, _, _)
FollowAdjacency(currentGuest, availableGuests, orderedSeats) ==
    IF availableGuests = <<>> THEN orderedSeats
    ELSE LET desiredAdjacents == IF currentGuest \in DOMAIN adjacents
                                 THEN adjacents[currentGuest] ELSE <<>>
             IsAvailable(n) == n \in Range(availableGuests)
             candidates == SelectSeq(desiredAdjacents, IsAvailable)
             next == IF candidates # <<>> THEN Head(candidates)
                     ELSE Head(availableGuests)
         IN FollowAdjacency(next, Without(availableGuests, next),
                            Append(orderedSeats, next))

\* optimizeSeatingOrder forgetting to seat the guest it starts from
optimizeSeatingOrderDroppingFirst(tableGuests) ==
    IF Len(tableGuests) <= 1 THEN tableGuests
    ELSE LET IsPriority(n) == n \in PriorityNames
             priorityGuests == SelectSeq(tableGuests, IsPriority)
             first == IF priorityGuests # <<>> THEN Head(priorityGuests)
                      ELSE tableGuests[1]
         IN FollowAdjacency(first, Without(Dedup(tableGuests, <<>>), first), <<>>)

optimizeSeatingOrder(tableGuests) ==
    IF Len(tableGuests) <= 1 THEN tableGuests
    ELSE LET IsPriority(n) == n \in PriorityNames
             priorityGuests == SelectSeq(tableGuests, IsPriority)
             first == IF priorityGuests # <<>> THEN Head(priorityGuests)
                      ELSE tableGuests[1]
         IN FollowAdjacency(first, Without(Dedup(tableGuests, <<>>), first), <<first>>)

\* ------------------------------------------------------------------- scorePlan
AllSeats(planTables) == FlattenSeq([t \in 1..Len(planTables) |-> planTables[t].seats])

PairsAt(seats, kind) ==
    Cardinality({p \in (1..Len(seats)) \X (1..Len(seats)) :
                    /\ p[1] < p[2]
                    /\ \/ Lookup(constraints, seats[p[1]], seats[p[2]]) = kind
                       \/ Lookup(constraints, seats[p[2]], seats[p[1]]) = kind})

SatisfiedAdjacents(seats) ==
    SumSeq([i \in 1..Len(seats) |->
               LET desiredAdjacents == IF seats[i] \in DOMAIN adjacents
                                       THEN adjacents[seats[i]] ELSE <<>>
                   Seated(n) == n \in Range(seats)
               IN Len(SelectSeq(desiredAdjacents, Seated))])

scorePlan(planTables) ==
    LET totalGuests == Len(AllSeats(planTables))
        mustPairs == SumSeq([t \in 1..Len(planTables) |->
                                PairsAt(planTables[t].seats, "must")])
        violatedCannot == SumSeq([t \in 1..Len(planTables) |->
                                     PairsAt(planTables[t].seats, "cannot")])
        satisfied == SumSeq([t \in 1..Len(planTables) |->
                                SatisfiedAdjacents(planTables[t].seats)])
        score == totalGuests * SeatPoints + mustPairs * MustPoints
                 - violatedCannot * CannotPenalty + satisfied * AdjacentPoints
    IN IF score < 0 THEN 0 ELSE score

\* ---------------------------------------------------- isPlanSufficientlyUnique
\* values of k for which the double 0.8 - k * 0.05 lies below (80 - 5k)/100, so
\* that a ratio equal to (80 - 5k)/100 compares greater than the threshold
TieRejected == {12, 14}

\* matchingGuests / totalGuests > 0.8 - (k * 0.05)
ExceedsThreshold(matchingGuests, totalGuests, k) ==
    LET pct == BaseThresholdPct - k * ThresholdStepPct
    IN \/ 100 * matchingGuests > totalGuests * pct
       \/ 100 * matchingGuests = totalGuests * pct /\ k \in TieRejected

\* plan.tables.find(t => t.id === id): position of the first such table, 0 if none
FindTable(planTables, id) ==
    IF \E i \in 1..Len(planTables) : planTables[i].id = id
    THEN CHOOSE i \in 1..Len(planTables) :
             planTables[i].id = id /\ \A j \in 1..(i - 1) : planTables[j].id # id
    ELSE 0

MatchingGuests(newTables, oldTables) ==
    SumSeq([t \in 1..Len(newTables) |->
               LET m == FindTable(oldTables, newTables[t].id)
               IN IF m = 0 THEN 0
                  ELSE Cardinality(Range(newTables[t].seats)
                                   \cap Range(oldTables[m].seats))])

\* a uniqueness filter that lets every candidate through
isPlanAlwaysUnique(newTables, existingPlans, k) == TRUE

\* a uniqueness filter that needs an accepted plan to compare with
isPlanUniqueAmongSome(newTables, existingPlans, k) ==
    /\ Len(existingPlans) > 0
    /\ \A e \in 1..Len(existingPlans) :
           LET totalGuests == Len(AllSeats(newTables))
               matchingGuests == MatchingGuests(newTables, existingPlans[e].tables)
           IN ~(totalGuests > 0 /\ ExceedsThreshold(matchingGuests, totalGuests, k))


isPlanSufficientlyUnique(newTables, existingPlans, k) ==
    \A e \in 1..Len(existingPlans) :
        LET totalGuests == Len(AllSeats(newTables))
            matchingGuests == MatchingGuests(newTables, existingPlans[e].tables)
        IN ~(totalGuests > 0 /\ ExceedsThreshold(matchingGuests, totalGuests, k))

\* ---------------------------------------------------------- generateSinglePlan
\* table ids named by the members' assignments, members in unit order
assignedTableIds(group) ==
    IF \E i \in 1..Len(group.units) : HasAssignment(group.units[i])
    THEN FlattenSeq([i \in 1..Len(group.units) |->
                        IF group.units[i] \in DOMAIN assignments
                        THEN ParsedTableIds(group.units[i]) ELSE <<>>])
    ELSE <<>>

Accepts(group, seats, t) == canPlaceGroupOnTable(group.units, seats[t], tables[t].seats)

\* position of the first accepting table among the candidates, 0 if none
RECURSIVE FirstAccepting(_, _, _)
FirstAccepting(group, seats, candidates) ==
    IF candidates = <<>> THEN 0
    ELSE IF Head(candidates) # 0 /\ Accepts(group, seats, Head(candidates))
         THEN Head(candidates)
         ELSE FirstAccepting(group, seats, Tail(candidates))

\* the tables the group can land on: the first accepting assigned table, else
\* the first accepting table of a shuffle of the plan's tables. Every accepting
\* table comes first in some shuffle, and no other table is ever taken, so the
\* fallback's outcomes are the accepting tables.
PlacementTargets(group, seats) ==
    LET ids == assignedTableIds(group)
        startTables == [t \in 1..Len(tables) |-> [id |-> tables[t].id]]
        restricted == FirstAccepting(group, seats,
                          [i \in 1..Len(ids) |-> FindTable(startTables, ids[i])])
    IN IF restricted # 0 THEN {restricted}
       ELSE {t \in 1..Len(tables) : Accepts(group, seats, t)}

EmptySeats == SubSeq([t \in 1..Len(tables) |-> <<>>], 1, Len(tables))

RECURSIVE PlaceGroups(_, _)
PlaceGroups(groupsLeft, seats) ==
    IF groupsLeft = <<>> THEN {[placed |-> TRUE, seats |-> seats]}
    ELSE LET group == Head(groupsLeft)
             targets == PlacementTargets(group, seats)
         IN IF targets = {} THEN {[placed |-> FALSE, seats |-> EmptySeats]}
            ELSE UNION {PlaceGroups(Tail(groupsLeft),
                                    [seats EXCEPT ![t] = @ \o group.units]) :
                           t \in targets}

PlanTablesOf(seats) ==
    [t \in 1..Len(tables) |->
        [id       |-> tables[t].id,
         seats    |-> IF Len(seats[t]) > 1 THEN optimizeSeatingOrder(seats[t])
                      ELSE seats[t],
         capacity |-> tables[t].seats]]

\* every outcome of one attempt: a completed plan, or placed = FALSE for null
\* (the tables of a null outcome are never read)
generateSinglePlan(groups, strategy) ==
    LET outcomes == UNION {PlaceGroups(order, EmptySeats) :
                              order \in applyDiversityStrategy(groups, strategy)}
    IN {[placed |-> o.placed, tables |-> PlanTablesOf(o.seats)] : o \in outcomes}

\* ------------------------------------------------------- generateSeatingPlans
maxPlans == IF isPremium THEN MaxPlansPremium ELSE MaxPlansFree

maxAttempts == IF isPremium THEN MaxAttemptsPremium ELSE MaxAttemptsFree

NoResult == [plans |-> <<>>, errors |-> <<>>]

\* lines 848-853: validate, return the errors with no plans when any is an error
Validate ==
    /\ pc = "start"
    /\ ran' = ran \cup {"validate"}
    /\ errors' = validateConstraints
    /\ IF HasErrorKind(validateConstraints)
       THEN /\ result' = [plans |-> <<>>, errors |-> validateConstraints]
            /\ pc' = "done"
       ELSE /\ result' = result
            /\ pc' = "validated"
    /\ UNCHANGED <<inputVars, conflicts, atomicGroups, plans, attempts, lastStrategy,
                   ufVars, appVars>>

\* lines 855-865: detect conflicts, abort on a critical one
DetectConflicts ==
    /\ pc = "validated"
    /\ ran' = ran \cup {"detect"}
    /\ conflicts' = detectConstraintConflicts
    /\ IF Len(CriticalConflicts(detectConstraintConflicts)) > 0
       THEN /\ errors' = Append(errors, ErrorOf("critical-conflicts"))
            /\ result' = [plans |-> <<>>, errors |-> errors']
            /\ pc' = "done"
       ELSE /\ errors' = errors
            /\ result' = result
            /\ pc' = "checked"
    /\ UNCHANGED <<inputVars, atomicGroups, plans, attempts, lastStrategy, ufVars, appVars>>

\* lines 867-875: build the atomic groups once, start with an empty pool
BuildGroups ==
    /\ pc = "checked"
    /\ ran' = ran \cup {"build"}
    /\ atomicGroups' = buildAtomicGroups
    /\ plans' = <<>>
    /\ attempts' = 0
    /\ pc' = "searching"
    /\ UNCHANGED <<inputVars, errors, conflicts, lastStrategy, result, ufVars, appVars>>

\* the loop condition with the attempt comparison the wrong way round
LoopGuardInverted == Len(plans) < maxPlans /\ attempts > maxAttempts

\* the loop condition off by one on both limits
LoopGuardInclusive == Len(plans) <= maxPlans /\ attempts <= maxAttempts

LoopGuard == Len(plans) < maxPlans /\ attempts < maxAttempts

\* the caller's group array with reverse applied to the array itself
groupsReversedInPlace(groups, strategy) ==
    IF strategy = "reverse" THEN Reverse(groups) ELSE groups

\* the caller's group array once generateSinglePlan has returned: every strategy
\* orders a copy ([...groups], and result = [...array] in shuffleArray), and the
\* placement pushes the units onto the seats of the new plan only
groupsAfterCall(groups, strategy) == groups

\* lines 886-893: one placement attempt with the strategy of attempt number n
AttemptBody(n) ==
    /\ lastStrategy' = StrategyOf(n)
    /\ atomicGroups' = groupsAfterCall(atomicGroups, StrategyOf(n))
    /\ plans' \in {IF out.placed /\ isPlanSufficientlyUnique(out.tables, plans, Len(plans))
                   THEN Append(plans, [tables |-> out.tables,
                                       score  |-> scorePlan(out.tables)])
                   ELSE plans :
                       out \in generateSinglePlan(atomicGroups, StrategyOf(n))}

\* lines 878-894: a loop iteration that does not yield
Attempt ==
    /\ pc = "searching"
    /\ LoopGuard
    /\ (attempts + 1) % YieldEvery # 0
    /\ attempts' = attempts + 1
    /\ AttemptBody(attempts + 1)
    /\ pc' = "searching"
    /\ UNCHANGED <<inputVars, ran, errors, conflicts, result, ufVars, appVars>>

\* lines 878-884: every 50th iteration awaits a zero-delay timer first
Yield ==
    /\ pc = "searching"
    /\ LoopGuard
    /\ (attempts + 1) % YieldEvery = 0
    /\ attempts' = attempts + 1
    /\ pc' = "yielded"
    /\ UNCHANGED <<inputVars, ran, errors, conflicts, atomicGroups, plans, lastStrategy,
                   result, ufVars, appVars>>

\* lines 886-894: the rest of the iteration once the timer has fired
Resume ==
    /\ pc = "yielded"
    /\ AttemptBody(attempts)
    /\ pc' = "searching"
    /\ UNCHANGED <<inputVars, ran, errors, conflicts, attempts, result,
                   ufVars, appVars>>

\* the comparator with its operands swapped: lowest score first
SortByScoreAscending(ps) == StableSort(ps, [i \in 1..Len(ps) |-> ps[i].score])

\* plans.sort((a, b) => (b.score || 0) - (a.score || 0))
SortByScore(ps) == StableSort(ps, [i \in 1..Len(ps) |-> 0 - ps[i].score])

\* the return without the explanatory error for an empty pool
RankWithoutExhaustionError ==
    /\ pc = "searching"
    /\ ~LoopGuard
    /\ plans' = SortByScore(plans)
    /\ result' = [plans |-> SortByScore(plans), errors |-> errors]
    /\ pc' = "done"
    /\ UNCHANGED <<inputVars, ran, errors, conflicts, atomicGroups, attempts, lastStrategy,
                   ufVars, appVars>>

\* lines 896-912: rank the pool and return it, or one error when it is empty
Rank ==
    /\ pc = "searching"
    /\ ~LoopGuard
    /\ plans' = SortByScore(plans)
    /\ result' = IF Len(plans) = 0
                 THEN [plans  |-> <<>>,
                       errors |-> Append(errors, ErrorOf("no-valid-plans"))]
                 ELSE [plans |-> SortByScore(plans), errors |-> errors]
    /\ pc' = "done"
    /\ UNCHANGED <<inputVars, ran, errors, conflicts, atomicGroups, attempts, lastStrategy,
                   ufVars, appVars>>

Next == Validate \/ DetectConflicts \/ BuildGroups \/ Attempt \/ Yield \/ Resume \/ Rank

\* ---------------------------------------------------------------------- inputs
GuestLists ==
    UNION {{[i \in 1..n |-> [name |-> AllNames[i], count |-> c[i]]] :
               c \in [1..n -> 1..MaxCount]} : n \in 0..MaxGuests}

\* one table, or the same table followed by a table with a single seat
TableLists ==
    {<<[id |-> 1, seats |-> MaxSeats]>>,
     <<[id |-> 1, seats |-> MaxSeats], [id |-> 2, seats |-> 1]>>}

OrderedPairs(names) == {p \in names \X names : p[1] # p[2]}

\* the map holding exactly the directed entries of e
ConstraintMapOf(e) ==
    [a \in {p[1] : p \in DOMAIN e} |->
        [b \in {p[2] : p \in {q \in DOMAIN e : q[1] = a}} |-> e[<<a, b>>]]]

ConstraintMaps(names, maxEntries) ==
    {ConstraintMapOf(e) :
        e \in UNION {[D -> {"must", "cannot", ""}] :
                        D \in {X \in SUBSET OrderedPairs(names) :
                                  Cardinality(X) <= maxEntries}}}

\* SET_ADJACENT keeps the lists symmetric: one map per set of undirected edges
AdjacencyMapOf(edges) ==
    LET linked == UNION edges
        Partners(a) == LET IsPartner(b) == {a, b} \in edges /\ a # b
                       IN SelectSeq(AllNames, IsPartner)
    IN [a \in linked |-> Partners(a)]

AdjacencyMaps(names, maxEdges) ==
    {AdjacencyMapOf(E) :
        E \in {X \in SUBSET {{p[1], p[2]} : p \in OrderedPairs(names)} :
                  Cardinality(X) <= maxEdges}}

\* assignment strings as the normalizer writes them: ascending ids, no repeats
AssignmentStrings(maxId) ==
    {<<Digits[i]>> : i \in 1..maxId} \cup
    {<<Digits[p[1]], Digits[p[2]]>> :
        p \in {q \in (1..maxId) \X (1..maxId) : q[1] < q[2]}}

AssignmentMaps(names, maxId) ==
    UNION {[D -> AssignmentStrings(maxId)] : D \in SUBSET names}

\* null, the grid's selection when no guest is selected
NoSelection == "null"

\* no union-find call made, nothing selected in the grid, no plans stored, the
\* application's constraint map being the one handed to the call
AsideIdle ==
    /\ ufState = EmptyUF
    /\ ufRelated = {}
    /\ ufTouched = {}
    /\ selectedGuestId = NoSelection
    /\ stateConstraints = constraints
    /\ seatingPlans = <<>>
    /\ seatingPlansFrom = <<>>
    /\ uiActions = 0

Started ==
    /\ AsideIdle
    /\ pc = "start"
    /\ ran = {}
    /\ errors = <<>>
    /\ conflicts = <<>>
    /\ atomicGroups = <<>>
    /\ plans = <<>>
    /\ attempts = 0
    /\ lastStrategy = NoStrategy
    /\ result = NoResult

NamesOf(gs) == {gs[i].name : i \in 1..Len(gs)}

\* packing inputs: up to two parties, one or two tables, no relations
InitPacking ==
    /\ guests \in GuestLists
    /\ tables \in TableLists
    /\ constraints = <<>>
    /\ adjacents = <<>>
    /\ assignments = <<>>
    /\ isPremium \in (IF Len(guests) <= 1 THEN BOOLEAN ELSE {FALSE})
    /\ Started

PairTables == <<[id |-> 1, seats |-> MaxSeats], [id |-> 2, seats |-> 1]>>

\* constraint and adjacency inputs over two parties
InitConstraints ==
    /\ guests \in {g \in GuestLists : Len(g) = 2 /\ g[2].count = 1}
    /\ tables = PairTables
    /\ \E e \in UNION {[D -> {"must", "cannot", ""}] :
                          D \in SUBSET OrderedPairs(NamesOf(guests))} :
           constraints = ConstraintMapOf(e)
    /\ \E E \in SUBSET {NamesOf(guests)} : adjacents = AdjacencyMapOf(E)
    /\ assignments = <<>>
    /\ isPremium = FALSE
    /\ Started

\* assignment inputs over two parties, with or without a constraint between them
InitAssignments ==
    /\ guests \in {g \in GuestLists : Len(g) = 2 /\ g[2].count = 1}
    /\ tables = PairTables
    /\ \E e \in UNION {[D -> {"must", "cannot"}] :
                          D \in SUBSET {<<AllNames[1], AllNames[2]>>}} :
           constraints = ConstraintMapOf(e)
    /\ adjacents = <<>>
    /\ assignments \in AssignmentMaps(NamesOf(guests), Len(tables) + 1)
    /\ isPremium = FALSE
    /\ Started

\* the map SET_CONSTRAINT builds: both directions of a pair hold the same value
SymmetricMapOf(v) ==
    ConstraintMapOf([p \in {q \in OrderedPairs(UNION DOMAIN v) : {q[1], q[2]} \in DOMAIN v}
                        |-> v[{p[1], p[2]}]])

TrioTableLists ==
    {<<[id |-> 1, seats |-> MaxSeats + 1]>>,
     <<[id |-> 1, seats |-> MaxSeats + 1], [id |-> 2, seats |-> 1]>>}

\* three single guests with symmetric constraints and adjacency chains
InitTrio ==
    /\ guests = [i \in 1..Len(AllNames) |-> [name |-> AllNames[i], count |-> 1]]
    /\ tables \in TrioTableLists
    /\ \E v \in UNION {[D -> {"must", "cannot"}] :
                          D \in SUBSET {{p[1], p[2]} : p \in OrderedPairs(NameSet)}} :
           constraints = SymmetricMapOf(v)
    /\ \E E \in SUBSET {{AllNames[1], AllNames[2]}, {AllNames[2], AllNames[3]}} :
           adjacents = AdjacencyMapOf(E)
    /\ assignments = <<>>
    /\ isPremium = FALSE
    /\ Started

\* the must edges of the cycle Ann -> Bride -> Cy -> Ann, and of its reverse
CycleEdges ==
    {<<AllNames[1], AllNames[2]>>, <<AllNames[2], AllNames[3]>>,
     <<AllNames[3], AllNames[1]>>}

ReverseCycleEdges == {<<p[2], p[1]>> : p \in CycleEdges}

\* three single guests at one table, with one-directional must constraints
\* along the cycle: any part of it, or the whole cycle the other way round
InitCycle ==
    /\ guests = [i \in 1..Len(AllNames) |-> [name |-> AllNames[i], count |-> 1]]
    /\ tables = <<[id |-> 1, seats |-> MaxSeats + 1]>>
    /\ \E D \in (SUBSET CycleEdges) \cup {ReverseCycleEdges} :
           constraints = ConstraintMapOf([p \in D |-> "must"])
    /\ adjacents = <<>>
    /\ assignments = <<>>
    /\ isPremium = FALSE
    /\ Started

Init == InitPacking \/ InitConstraints \/ InitAssignments \/ InitTrio \/ InitCycle

Spec == Init /\ [][Next]_vars

\* the call runs to completion: every synchronous segment finishes and the
\* event loop fires the zero-delay timer of each yield.  Checked on the inputs
\* of at most one party.
InitSmall == InitPacking /\ Len(guests) <= 1

FairSpec == InitSmall /\ [][Next]_vars /\ WF_vars(Next)

\* ------------------------------------------------ the ranking step on its own
MaxPool == 3

\* number of one-seat tables of the large premium run
PremiumTables == 18

\* number of user actions in one session of the constraint pages
MaxUiActions == 5

RankScores == {0, SeatPoints, SeatPoints + AdjacentPoints, SeatPoints + MustPoints}

\* the state reached at line 896 with a pool whose scores are arbitrary
InitRank ==
    /\ guests = <<>>
    /\ tables = <<[id |-> 1, seats |-> 1]>>
    /\ constraints = <<>>
    /\ adjacents = <<>>
    /\ assignments = <<>>
    /\ isPremium = FALSE
    /\ pc = "searching"
    /\ ran = {"validate", "detect", "build"}
    /\ errors = <<>>
    /\ conflicts = <<>>
    /\ atomicGroups = <<>>
    /\ \E n \in 0..MaxPool : \E sc \in [1..n -> RankScores] :
           plans = SubSeq([i \in 1..n |-> [tables |-> PlanTablesOf(EmptySeats),
                                           score  |-> sc[i]]], 1, n)
    /\ attempts = maxAttempts
    /\ lastStrategy = StrategyOf(maxAttempts)
    /\ result = NoResult
    /\ AsideIdle

SpecRank == InitRank /\ [][Rank]_vars

\* ------------------------------------- the context's conflict refresh on its own
\* identifiers a conflict record can receive (Date.now and Math.random)
IdValues == {"id-a", "id-b"}

\* the records of one detection run, each with some identifier
WithIds(cs) ==
    {SubSeq([i \in 1..Len(cs) |->
                [id |-> ids[i], type |-> cs[i].type, severity |-> cs[i].severity,
                 affectedGuests |-> cs[i].affectedGuests]], 1, Len(cs)) :
        ids \in [1..Len(cs) -> IdValues]}

\* a refresh that also empties the constraint map it has just read
updateConflictsConsumingConstraints ==
    /\ pc \in {"start", "shown"}
    /\ conflicts' \in (IF Len(guests) < 2 \/ Len(tables) = 0 THEN {<<>>}
                       ELSE WithIds(detectConstraintConflicts))
    /\ constraints' = <<>>
    /\ pc' = IF pc = "start" THEN "shown" ELSE "shown-again"
    /\ UNCHANGED <<guests, tables, adjacents, assignments, isPremium,
                   ran, errors, atomicGroups, plans, attempts, lastStrategy, result,
                   ufVars, appVars>>

\* updateConflicts: the debounced refresh of the displayed conflicts, run here
\* a first and a second time on the same state
updateConflicts ==
    /\ pc \in {"start", "shown"}
    /\ conflicts' \in (IF Len(guests) < 2 \/ Len(tables) = 0 THEN {<<>>}
                       ELSE WithIds(detectConstraintConflicts))
    /\ pc' = IF pc = "start" THEN "shown" ELSE "shown-again"
    /\ UNCHANGED <<inputVars, ran, errors, atomicGroups, plans, attempts, lastStrategy,
                   result, ufVars, appVars>>

SpecDetect == Init /\ [][updateConflicts]_vars

\* --------------------------------------- a premium run with a well-filled pool
\* the pool size at which 0.8 - k * 0.05 reaches zero
ZeroThresholdAt == BaseThresholdPct \div ThresholdStepPct

\* one guest seated alone at the table in position t
SoloSeats(name, t) ==
    SubSeq([i \in 1..Len(tables) |-> IF i = t THEN <<name>> ELSE <<>>], 1, Len(tables))

\* a premium call for one guest and many one-seat tables, at the point where
\* each of its first attempts has seated the guest at a fresh table and has been
\* accepted (lines 886-893), so that the pool holds ZeroThresholdAt plans
InitPremium ==
    /\ guests = <<[name |-> AllNames[1], count |-> 1]>>
    /\ tables = SubSeq([i \in 1..PremiumTables |-> [id |-> i, seats |-> 1]],
                       1, PremiumTables)
    /\ constraints = <<>>
    /\ adjacents = <<>>
    /\ assignments = <<>>
    /\ isPremium = TRUE
    /\ pc = "searching"
    /\ ran = {"validate", "detect", "build"}
    /\ errors = <<>>
    /\ conflicts = <<>>
    /\ atomicGroups = buildAtomicGroups
    /\ plans = SubSeq([i \in 1..ZeroThresholdAt |->
                          [tables |-> PlanTablesOf(SoloSeats(AllNames[1], i)),
                           score  |-> scorePlan(PlanTablesOf(SoloSeats(AllNames[1], i)))]],
                      1, ZeroThresholdAt)
    /\ attempts = ZeroThresholdAt
    /\ lastStrategy = StrategyOf(ZeroThresholdAt)
    /\ result = NoResult
    /\ AsideIdle

SpecPremium == InitPremium /\ [][Attempt \/ Yield \/ Resume \/ Rank]_vars

\* ------------------------------------------- OptimizedUnionFind on its own
\* the ids handed to the instance
UFKeys == NameSet \cup {"Dee"}

\* the smallest transitive relation holding the pairs of R
RECURSIVE TransitiveClosure(_)
TransitiveClosure(R) ==
    LET next == R \cup {pq \in UFKeys \X UFKeys :
                            \E m \in UFKeys : <<pq[1], m>> \in R /\ <<m, pq[2]>> \in R}
    IN IF next = R THEN R ELSE TransitiveClosure(next)

\* find(key) on the instance
find ==
    \E key \in UFKeys :
        /\ ufState' = UFFind(ufState, key).uf
        /\ ufTouched' = ufTouched \cup {key}
        /\ UNCHANGED <<ufRelated, inputVars, pc, ran, errors, conflicts, atomicGroups,
                       plans, attempts, lastStrategy, result, appVars>>

\* union(key1, key2) on the instance
union ==
    \E key1, key2 \in UFKeys :
        /\ ufState' = UFUnion(ufState, key1, key2)
        /\ ufTouched' = ufTouched \cup {key1, key2}
        /\ ufRelated' = TransitiveClosure(ufRelated \cup {<<key1, key2>>, <<key2, key1>>})
        /\ UNCHANGED <<inputVars, pc, ran, errors, conflicts, atomicGroups,
                       plans, attempts, lastStrategy, result, appVars>>

\* getGroups() on the instance: it calls find on every key in insertion order
getGroups ==
    /\ ufState' = UFFindAll(ufState, ufState.keys)
    /\ UNCHANGED <<ufRelated, ufTouched, inputVars, pc, ran, errors, conflicts,
                   atomicGroups, plans, attempts, lastStrategy, result, appVars>>

\* a fresh instance, nothing else going on
InitUF ==
    /\ guests = <<>>
    /\ tables = <<>>
    /\ constraints = <<>>
    /\ adjacents = <<>>
    /\ assignments = <<>>
    /\ isPremium = FALSE
    /\ Started

SpecUF == InitUF /\ [][find \/ union \/ getGroups]_vars

\* ------------------------------- the reducer and the handlers that edit adjacency
MapDelete(f, k) == [x \in DOMAIN f \ {k} |-> f[x]]

ListOf(adj, g) == IF g \in DOMAIN adj THEN adj[g] ELSE <<>>

Filtered(list, removed) ==
    LET Kept(n) == n # removed IN SelectSeq(list, Kept)

\* reducer SET_CONSTRAINT: the value goes into both directions
SetConstraint(cons, guest1, guest2, value) ==
    LET inner(g) == IF g \in DOMAIN cons THEN cons[g] ELSE <<>>
        c1 == MapSet(cons, guest1, MapSet(inner(guest1), guest2, value))
        inner2 == IF guest2 \in DOMAIN c1 THEN c1[guest2] ELSE <<>>
    IN MapSet(c1, guest2, MapSet(inner2, guest1, value))

\* reducer SET_ADJACENT: each guest is pushed onto the other's list unless there
SetAdjacent(adj, guest1, guest2) ==
    LET l1 == ListOf(adj, guest1)
        a1 == MapSet(adj, guest1, IF guest2 \in Range(l1) THEN l1 ELSE Append(l1, guest2))
        l2 == ListOf(a1, guest2)
    IN MapSet(a1, guest2, IF guest1 \in Range(l2) THEN l2 ELSE Append(l2, guest1))

\* reducer REMOVE_ADJACENT: both lists are filtered, and created when missing
RemoveAdjacent(adj, guest1, guest2) ==
    LET a1 == MapSet(adj, guest1, Filtered(ListOf(adj, guest1), guest2))
    IN MapSet(a1, guest2, Filtered(ListOf(a1, guest2), guest1))

\* the ids of the guests (the id field of Guest): the key under which the
\* constraint and adjacency maps hold a guest, which the reducer, the table
\* manager and the seating algorithm take to be the guest's name
GuestIds == guestNames

\* buildAdjacencyGraph: undirected edges between known, distinct guests
GraphEdges ==
    {e \in GuestIds \X GuestIds :
        /\ e[1] # e[2]
        /\ \/ e[1] \in DOMAIN adjacents /\ e[2] \in Range(adjacents[e[1]])
           \/ e[2] \in DOMAIN adjacents /\ e[1] \in Range(adjacents[e[2]])}

RECURSIVE Reached(_, _)
Reached(seen, edges) ==
    LET more == seen \cup {e[2] : e \in {d \in edges : d[1] \in seen}}
    IN IF more = seen THEN seen ELSE Reached(more, edges)

getComponent(startId, edges) == Reached({startId}, edges)

wouldCloseLoop(a, b, edges) == b \in getComponent(a, edges)

getAdjacentCount(guestId) == Len(ListOf(adjacents, guestId))

\* the seats of a component, and whether some table has exactly that many
ComponentSeats(nodes) ==
    SumSeq([i \in 1..Len(guests) |->
               IF guests[i].name \in nodes THEN guests[i].count ELSE 0])

hasExactCapacity(seats) == \E t \in 1..Len(tables) : tables[t].seats = seats

uiFrame == <<tables, assignments, isPremium, pc, ran, errors, conflicts, atomicGroups,
             plans, attempts, lastStrategy, result, ufVars>>

\* one more user action on the pages, no generation call being under way
UserActs ==
    /\ pc = "start"
    /\ uiActions < MaxUiActions
    /\ uiActions' = uiActions + 1

\* purgeSeatingPlans: the stored plans are emptied
purgeSeatingPlans ==
    /\ seatingPlans' = <<>>
    /\ seatingPlansFrom' = <<>>

\* handleGuestSelect: a double click on a guest of the constraint grid
handleGuestSelect ==
    \E guestId \in GuestIds :
        /\ UserActs
        /\ IF selectedGuestId = NoSelection
           THEN /\ selectedGuestId' = guestId
                /\ UNCHANGED <<guests, constraints, adjacents, stateConstraints,
                               seatingPlans, seatingPlansFrom>>
           ELSE /\ selectedGuestId' = NoSelection
                /\ LET a == selectedGuestId
                       b == guestId
                       refused ==
                           \/ a = b
                           \/ getAdjacentCount(a) >= 2 \/ getAdjacentCount(b) >= 2
                           \/ /\ wouldCloseLoop(a, b, GraphEdges)
                              /\ ~hasExactCapacity(
                                     ComponentSeats(getComponent(a, GraphEdges)))
                       cleared ==
                           IF \/ Lookup(constraints, a, b) = "cannot"
                              \/ Lookup(constraints, b, a) = "cannot"
                           THEN SetConstraint(constraints, a, b, "")
                           ELSE constraints
                   IN IF refused
                      THEN UNCHANGED <<guests, constraints, adjacents, stateConstraints,
                                       seatingPlans, seatingPlansFrom>>
                      ELSE /\ adjacents' = SetAdjacent(adjacents, a, b)
                           /\ constraints' = cleared
                           /\ stateConstraints' = cleared
                           /\ purgeSeatingPlans
                           /\ UNCHANGED guests
        /\ UNCHANGED uiFrame

\* the entries typed into a guest's must field: none, or one name, plain or
\* between stars
MustFieldValues ==
    {<<>>} \cup {<<[starred |-> st, name |-> n]>> : st \in BOOLEAN, n \in UFKeys}

RECURSIVE ClearMusts(_, _, _)
ClearMusts(cons, guestName, dropped) ==
    IF dropped = {} THEN cons
    ELSE LET m == CHOOSE x \in dropped : TRUE
         IN ClearMusts(SetConstraint(cons, guestName, m, ""), guestName, dropped \ {m})

\* handleUpdateMustConstraints: the must field of a guest row is edited
handleUpdateMustConstraints ==
    \E guestName \in guestNames, newMusts \in MustFieldValues :
        LET currentMusts ==
                IF guestName \in DOMAIN constraints
                THEN {m \in DOMAIN constraints[guestName] :
                         constraints[guestName][m] = "must"}
                ELSE {}
            typedPlain == {newMusts[i].name : i \in {j \in 1..Len(newMusts) :
                                                       ~newMusts[j].starred}}
            cons1 == ClearMusts(constraints, guestName, currentMusts \ typedPlain)
            mustGuest == newMusts[1]
            linked == /\ newMusts # <<>>
                      /\ mustGuest.starred
                      /\ guestName \in DOMAIN adjacents
                      /\ Len(adjacents[guestName]) < 2
            added == /\ newMusts # <<>>
                     /\ ~mustGuest.starred
                     /\ mustGuest.name # guestName
                     /\ mustGuest.name \notin currentMusts
                     /\ mustGuest.name \in guestNames
            cons2 == IF linked \/ added
                     THEN SetConstraint(cons1, guestName, mustGuest.name, "must")
                     ELSE cons1
        IN /\ UserActs
           /\ adjacents' = IF linked THEN SetAdjacent(adjacents, guestName, mustGuest.name)
                           ELSE adjacents
           /\ constraints' = cons2
           /\ stateConstraints' = cons2
           /\ purgeSeatingPlans
           /\ UNCHANGED <<guests, selectedGuestId, uiFrame>>

\* dispatch of REMOVE_ADJACENT
REMOVE_ADJACENT ==
    \E guest1, guest2 \in guestNames :
        /\ UserActs
        /\ adjacents' = RemoveAdjacent(adjacents, guest1, guest2)
        /\ UNCHANGED <<guests, constraints, selectedGuestId, stateConstraints,
                       seatingPlans, seatingPlansFrom, uiFrame>>

\* dispatch of REMOVE_GUEST with a valid index, the table list being the user's
REMOVE_GUEST ==
    \E index \in 1..Len(guests) :
        LET removed == guests[index].name
            cons1 == MapDelete(constraints, removed)
            cons2 == [g \in DOMAIN cons1 |->
                         IF removed \in DOMAIN cons1[g] /\ cons1[g][removed] # ""
                         THEN MapDelete(cons1[g], removed) ELSE cons1[g]]
            adj1 == MapDelete(adjacents, removed)
        IN /\ UserActs
           /\ guests' = SubSeq(guests, 1, index - 1) \o SubSeq(guests, index + 1, Len(guests))
           /\ constraints' = cons2
           /\ stateConstraints' = cons2
           /\ adjacents' = [g \in DOMAIN adj1 |-> Filtered(adj1[g], removed)]
           /\ assignments' = MapDelete(assignments, removed)
           /\ UNCHANGED <<selectedGuestId, seatingPlans, seatingPlansFrom, tables,
                          isPremium, pc, ran, errors, conflicts, atomicGroups, plans,
                          attempts, lastStrategy, result, ufVars>>

\* the names a guest can be renamed to
NewNames == UFKeys \ NameSet

\* dispatch of RENAME_GUEST with a valid index
RENAME_GUEST ==
    \E index \in 1..Len(guests), name \in NewNames :
        LET oldName == guests[index].name
            Moved(f) == IF oldName \in DOMAIN f
                        THEN MapDelete(MapSet(f, name, f[oldName]), oldName)
                        ELSE f
            cons1 == Moved(constraints)
            cons2 == [g \in DOMAIN cons1 |->
                         IF oldName \in DOMAIN cons1[g] /\ cons1[g][oldName] # ""
                         THEN MapDelete(MapSet(cons1[g], name, cons1[g][oldName]), oldName)
                         ELSE cons1[g]]
            adj1 == Moved(adjacents)
        IN /\ UserActs
           /\ guests' = [guests EXCEPT ![index].name = name]
           /\ constraints' = cons2
           /\ stateConstraints' = cons2
           /\ adjacents' = [g \in DOMAIN adj1 |->
                               [i \in 1..Len(adj1[g]) |->
                                   IF adj1[g][i] = oldName THEN name ELSE adj1[g][i]]]
           /\ assignments' = Moved(assignments)
           /\ UNCHANGED <<selectedGuestId, seatingPlans, seatingPlansFrom, tables,
                          isPremium, pc, ran, errors, conflicts, atomicGroups, plans,
                          attempts, lastStrategy, result, ufVars>>

\* three single guests, one table, no relation yet, nothing selected
InitUI ==
    /\ guests = [i \in 1..Len(AllNames) |-> [name |-> AllNames[i], count |-> 1]]
    /\ tables = <<[id |-> 1, seats |-> MaxSeats + 1]>>
    /\ constraints = <<>>
    /\ adjacents = <<>>
    /\ assignments = <<>>
    /\ isPremium = FALSE
    /\ Started

SpecUI ==
    InitUI /\ [][handleGuestSelect \/ handleUpdateMustConstraints \/ REMOVE_ADJACENT
                    \/ REMOVE_GUEST \/ RENAME_GUEST]_vars

\* ------------------------------------- a generation call overlapping with edits
\* The auto-generate effect of the plan viewer has called generateSeatingPlans
\* with the guests, tables, constraints and adjacency of the application state:
\* guests, tables, constraints and adjacents are the arguments the call holds,
\* stateConstraints is the constraint map of the application state, and
\* seatingPlansFrom remembers the constraint map the stored plans were computed
\* from.  The event loop runs a user's click only while the call waits on its
\* timer or after its continuation has run.

\* handleToggleConstraint: a click on a cell of the constraint grid cycles
\* '' -> must -> cannot -> '' and purges the stored plans
handleToggleConstraint ==
    \E guest1Id \in GuestIds, guest2Id \in GuestIds :
        /\ pc \in {"yielded", "stored"}
        /\ uiActions < MaxUiActions
        /\ uiActions' = uiActions + 1
        /\ guest1Id # guest2Id
        /\ selectedGuestId' = NoSelection
        /\ LET currentValue ==
                   IF /\ guest1Id \in DOMAIN stateConstraints
                      /\ guest2Id \in DOMAIN stateConstraints[guest1Id]
                   THEN stateConstraints[guest1Id][guest2Id] ELSE ""
               nextValue == IF currentValue = "" THEN "must"
                            ELSE IF currentValue = "must" THEN "cannot" ELSE ""
           IN stateConstraints' =
                  SetConstraint(stateConstraints, guest1Id, guest2Id, nextValue)
        /\ purgeSeatingPlans
        /\ UNCHANGED <<inputVars, pc, ran, errors, conflicts, atomicGroups, plans,
                       attempts, lastStrategy, result, ufVars>>

\* the continuation of the effect: a non-empty result is dispatched as
\* SET_SEATING_PLANS, whatever the application state has become meanwhile
storePlans ==
    /\ pc = "done"
    /\ pc' = "stored"
    /\ IF Len(result.plans) > 0
       THEN /\ seatingPlans' = result.plans
            /\ seatingPlansFrom' = constraints
       ELSE UNCHANGED <<seatingPlans, seatingPlansFrom>>
    /\ UNCHANGED <<inputVars, ran, errors, conflicts, atomicGroups, plans, attempts,
                   lastStrategy, result, ufVars, selectedGuestId, stateConstraints,
                   uiActions>>

\* the effect's condition holds: no stored plan, a guest and a table; the effect
\* passes {} for the assignments
InitApp ==
    /\ guests \in {g \in GuestLists : Len(g) = MaxGuests}
    /\ tables \in TableLists
    /\ constraints = <<>>
    /\ adjacents = <<>>
    /\ assignments = <<>>
    /\ isPremium = FALSE
    /\ Started

SpecApp ==
    InitApp /\ [][Next \/ handleToggleConstraint \/ storePlans]_vars

\* ------------------------------------------------------------------ properties
Returned == pc = "done"

ReturnedPlans == IF Returned THEN result.plans ELSE <<>>

\* the plans accepted so far, followed by the plans handed back
AcceptedAndReturned == plans \o ReturnedPlans

CapacityOfTable(id) == tables[CHOOSE i \in 1..Len(tables) : tables[i].id = id].seats

\* positions of the tables of a plan at which a guest is seated
TablesOfGuest(plan, name) ==
    {t \in 1..Len(plan.tables) : name \in Range(plan.tables[t].seats)}

\* C1: in every plan accepted by the search and in every returned plan, at
\* every table, the party sizes of the seated guests add up to at most the
\* capacity of that table.
C1_CapacityRespected ==
    \A p \in 1..Len(AcceptedAndReturned) :
        \A t \in 1..Len(AcceptedAndReturned[p].tables) :
            GroupSize(AcceptedAndReturned[p].tables[t].seats)
                <= CapacityOfTable(AcceptedAndReturned[p].tables[t].id)

\* a returned plan with a table that two parties or more fill exactly
C1_FullTableReturned ==
    \E p \in 1..Len(ReturnedPlans) :
        \E t \in 1..Len(ReturnedPlans[p].tables) :
            /\ Len(ReturnedPlans[p].tables[t].seats) >= 2
            /\ GroupSize(ReturnedPlans[p].tables[t].seats)
                   = CapacityOfTable(ReturnedPlans[p].tables[t].id)

\* C2: in every returned plan, no two guests of one table hold a "cannot"
\* relation in either direction of the constraint map.
C2_NoCannotCoSeated ==
    \A p \in 1..Len(ReturnedPlans) :
        \A t \in 1..Len(ReturnedPlans[p].tables) :
            \A a, b \in Range(ReturnedPlans[p].tables[t].seats) :
                a # b => Lookup(constraints, a, b) # "cannot"

\* a must constraint or an adjacency edge between two names, either direction
Linked(a, b) ==
    \/ Lookup(constraints, a, b) = "must"
    \/ Lookup(constraints, b, a) = "must"
    \/ a \in DOMAIN adjacents /\ b \in Range(adjacents[a])
    \/ b \in DOMAIN adjacents /\ a \in Range(adjacents[b])

RECURSIVE ReachableWithin(_, _)
ReachableWithin(S, n) ==
    IF n = 0 THEN S
    ELSE ReachableWithin(S \cup {y \in NameSet : \E x \in S : Linked(x, y)}, n - 1)

Connected(a, b) == b \in ReachableWithin({a}, Len(AllNames))

\* C3: in every plan accepted by the search and in every returned plan, two
\* guests connected by a chain of must constraints and adjacency edges sit at
\* the same table.
C3_GroupsShareTable ==
    \A p \in 1..Len(AcceptedAndReturned) :
        \A a, b \in guestNames :
            Connected(a, b) =>
                TablesOfGuest(AcceptedAndReturned[p], a)
                    = TablesOfGuest(AcceptedAndReturned[p], b)

\* a plan returned for two tables and two guests joined only through a third
C3_ChainSeatedTogether ==
    /\ Len(ReturnedPlans) >= 1
    /\ Len(tables) >= 2
    /\ \E a, b \in guestNames :
           /\ a # b
           /\ Connected(a, b)
           /\ ~Linked(a, b)
           /\ TablesOfGuest(ReturnedPlans[1], a) # {}
           /\ TablesOfGuest(ReturnedPlans[1], a) = TablesOfGuest(ReturnedPlans[1], b)

\* total capacity covers total occupancy and detection finds nothing critical
FeasibleOnPaper ==
    /\ totalGuestCount <= totalSeats
    /\ \A i \in 1..Len(detectConstraintConflicts) :
           detectConstraintConflicts[i].severity # "critical"

\* some ordering strategy seats every group whatever the shuffles turn out
SomeStrategyAlwaysPlaces ==
    \E i \in 1..Len(strategies) :
        \A out \in generateSinglePlan(buildAtomicGroups, strategies[i]) : out.placed

\* C4 as stated: a call whose input has enough total capacity and no critical
\* conflict returns at least one plan.
C4_FeasibleInputYieldsPlan ==
    (Returned /\ FeasibleOnPaper) => Len(result.plans) >= 1

\* C4: a call whose input passes validation, has no critical conflict and
\* admits a strategy under which the greedy placement cannot fail returns at
\* least one plan.
C4_PlaceableInputYieldsPlan ==
    (/\ Returned
     /\ FeasibleOnPaper
     /\ ~HasErrorKind(validateConstraints)
     /\ SomeStrategyAlwaysPlaces) => Len(result.plans) >= 1

\* a plan returned for several groups where some strategies can fail
C4_PlanFoundDespiteFailures ==
    /\ Returned
    /\ FeasibleOnPaper
    /\ SomeStrategyAlwaysPlaces
    /\ Len(atomicGroups) >= 2
    /\ \E i \in 1..Len(strategies) :
           \E out \in generateSinglePlan(atomicGroups, strategies[i]) : ~out.placed
    /\ Len(result.plans) >= 1

\* C5: once conflict detection has reported a conflict of critical severity,
\* the call has returned zero plans with an error-kind message, and neither
\* group building nor any placement attempt has run.
C5_CriticalConflictAborts ==
    ("detect" \in ran /\ \E i \in 1..Len(conflicts) : conflicts[i].severity = "critical")
        => /\ Returned
           /\ result.plans = <<>>
           /\ HasErrorKind(result.errors)
           /\ "build" \notin ran
           /\ atomicGroups = <<>>
           /\ plans = <<>>
           /\ attempts = 0

\* a call aborted because one pair is must one way and cannot the other
C5_ImpossiblePairAborted ==
    /\ Returned
    /\ \E i \in 1..Len(conflicts) :
           conflicts[i].type = "impossible" /\ conflicts[i].severity = "critical"
    /\ \E a, b \in guestNames :
           Lookup(constraints, a, b) = "must" /\ Lookup(constraints, b, a) = "cannot"

\* the table ids written in the assignment string of a guest
AssignedIds(name) ==
    {i \in 1..Len(Digits) : Digits[i] \in Range(assignments[name])}

OccupancyExceedsCapacity == totalGuestCount > totalSeats

DanglingTableId ==
    \E name \in DOMAIN assignments :
        \E id \in AssignedIds(name) : \A t \in 1..Len(tables) : tables[t].id # id

MustPairRestrictedApart ==
    \E a, b \in DOMAIN assignments :
        /\ Lookup(constraints, a, b) = "must"
        /\ AssignedIds(a) \cap AssignedIds(b) = {}

C7_RestrictedGuestsAtAllowedTables ==
    \A p \in 1..Len(ReturnedPlans) :
        \A name \in guestNames \cap DOMAIN assignments :
            \A t \in TablesOfGuest(ReturnedPlans[p], name) :
                ReturnedPlans[p].tables[t].id \in AssignedIds(name)

\* the seats of a plan, as pairs of table position and seat position
SeatsOf(plan, name) ==
    {ts \in (1..Len(plan.tables)) \X (1..Len(AllNames)) :
        /\ ts[2] <= Len(plan.tables[ts[1]].seats)
        /\ plan.tables[ts[1]].seats[ts[2]] = name}

Complete(plan) ==
    /\ \A name \in guestNames : Cardinality(SeatsOf(plan, name)) = 1
    /\ \A t \in 1..Len(plan.tables) :
           /\ Len(plan.tables[t].seats) <= Len(AllNames)
           /\ Range(plan.tables[t].seats) \subseteq guestNames

\* C8: every plan of the pool and every returned plan seats each guest of the
\* guest list exactly once, at exactly one table, and nobody else.
C8_EachGuestSeatedOnce ==
    /\ \A p \in 1..Len(plans) : Complete(plans[p])
    /\ \A p \in 1..Len(ReturnedPlans) : Complete(ReturnedPlans[p])

\* a returned plan with a table of three that the reordering went through,
\* from a call in which some attempt added no plan
C8_ReorderedTableReturned ==
    /\ adjacents # <<>>
    /\ attempts > Len(plans)
    /\ \E p \in 1..Len(ReturnedPlans) :
           \E t \in 1..Len(ReturnedPlans[p].tables) :
               Len(ReturnedPlans[p].tables[t].seats) >= 3

\* C9: the returned plans are ordered by score, best first: each plan scores
\* at least as much as the plan after it.
C9_PlansSortedByScore ==
    \A i \in 1..(Len(ReturnedPlans) - 1) :
        ReturnedPlans[i].score >= ReturnedPlans[i + 1].score

\* a returned list whose first and last plans score differently
C9_DistinctScoresReturned ==
    /\ Len(ReturnedPlans) >= 2
    /\ ReturnedPlans[1].score > ReturnedPlans[Len(ReturnedPlans)].score

\* C10: the search loop terminates: at most 200 attempts and 10 accepted plans
\* without the premium flag, at most 500 attempts and 30 plans with it, no
\* attempt once the pool holds the target number of plans, and the call
\* eventually returns.
C10_SearchLoopTerminates ==
    /\ [](~isPremium => attempts <= MaxAttemptsFree /\ Len(plans) <= MaxPlansFree)
    /\ [](isPremium => attempts <= MaxAttemptsPremium /\ Len(plans) <= MaxPlansPremium)
    /\ [][Len(plans) = (IF isPremium THEN MaxPlansPremium ELSE MaxPlansFree)
              => attempts' = attempts]_vars
    /\ <>Returned

\* a call that returned a full pool before its attempt budget ran out
C10_StoppedAtTargetCount ==
    /\ Returned
    /\ Len(result.plans) = (IF isPremium THEN MaxPlansPremium ELSE MaxPlansFree)
    /\ attempts < MaxAttemptsFree

\* C11: a completed call returns either at least one plan and no error-kind
\* message, or zero plans and at least one error-kind message; when the search
\* ran and accepted nothing, the result holds exactly one error, the
\* explanatory one.
C11_PlansOrErrors ==
    Returned =>
        /\ \/ Len(result.plans) >= 1 /\ ~HasErrorKind(result.errors)
           \/ Len(result.plans) = 0 /\ HasErrorKind(result.errors)
        /\ ("build" \in ran /\ Len(plans) = 0)
               => result.errors = <<ErrorOf("no-valid-plans")>>

\* a call whose search used its whole budget without accepting a plan
C11_SearchExhaustedEmpty ==
    /\ Returned
    /\ "build" \in ran
    /\ attempts = maxAttempts
    /\ result.plans = <<>>

\* the constraint map holds exactly the must entries a -> b, b -> c, c -> a
IsMustCycle(a, b, c) ==
    constraints = ConstraintMapOf([p \in {<<a, b>>, <<b, c>>, <<c, a>>} |-> "must"])

\* C12: for three guests whose must constraints form the cycle a -> b -> c -> a,
\* conflict detection reports a circular conflict whose affected guests
\* contain a, b and c.
C12_CycleNamesAllThree ==
    \A a, b, c \in guestNames :
        ("detect" \in ran /\ Cardinality({a, b, c}) = 3 /\ IsMustCycle(a, b, c))
            => \E i \in 1..Len(conflicts) :
                   /\ conflicts[i].type = "circular"
                   /\ {a, b, c} \subseteq Range(conflicts[i].affectedGuests)

\* one direction of the pair is must and the other is cannot
Contradictory(a, b) ==
    \/ Lookup(constraints, a, b) = "must" /\ Lookup(constraints, b, a) = "cannot"
    \/ Lookup(constraints, a, b) = "cannot" /\ Lookup(constraints, b, a) = "must"

\* the reported conflicts of one type whose affected guests are exactly S
ConflictsAbout(type, S) ==
    {i \in 1..Len(conflicts) :
        conflicts[i].type = type /\ Range(conflicts[i].affectedGuests) = S}

\* C13: for non-empty guest and table lists, conflict detection reports exactly
\* one impossible conflict, of critical severity, for each unordered pair with
\* must one way and cannot the other way, and no impossible conflict otherwise.
C13_OneImpossiblePerContradiction ==
    ("detect" \in ran /\ Len(guests) > 0 /\ Len(tables) > 0) =>
        /\ \A a, b \in NameSet :
               Cardinality(ConflictsAbout("impossible", {a, b}))
                   = (IF Contradictory(a, b) THEN 1 ELSE 0)
        /\ \A i \in 1..Len(conflicts) :
               conflicts[i].type = "impossible" =>
                   /\ conflicts[i].severity = "critical"
                   /\ Len(conflicts[i].affectedGuests) = 2
                   /\ Cardinality(Range(conflicts[i].affectedGuests)) = 2

\* detection has met the cannot direction of a contradictory pair first
C13_CannotSeenFirst ==
    /\ "detect" \in ran
    /\ \E a, b \in guestNames :
           /\ NameIndex(a) < NameIndex(b)
           /\ Lookup(constraints, a, b) = "cannot"
           /\ Lookup(constraints, b, a) = "must"
           /\ Cardinality(ConflictsAbout("impossible", {a, b})) = 1

MustLinked(a, b) ==
    Lookup(constraints, a, b) = "must" \/ Lookup(constraints, b, a) = "must"

RECURSIVE MustReachable(_, _)
MustReachable(S, n) ==
    IF n = 0 THEN S
    ELSE MustReachable(S \cup {y \in guestNames : \E x \in S : MustLinked(x, y)}, n - 1)

\* S is a connected component of the must relation among the guests
IsMustComponent(S) ==
    S # {} /\ \A a \in S : MustReachable({a}, Len(AllNames)) = S

PartySizes(S) == SumSeq([i \in 1..Len(guests) |->
                            IF guests[i].name \in S THEN guests[i].count ELSE 0])

ExceedsLargestTable(S) == \A t \in 1..Len(tables) : tables[t].seats < PartySizes(S)

\* C14: conflict detection reports a capacity_violation conflict, of critical
\* severity, for a set of guests exactly when the set is a connected component
\* of the must relation whose party sizes add up to more than the largest
\* table; and a call on such an input returns zero plans.
C14_CapacityViolationPerMustGroup ==
    /\ "detect" \in ran =>
           /\ \A S \in SUBSET NameSet :
                  (ConflictsAbout("capacity_violation", S) # {})
                      <=> (IsMustComponent(S) /\ ExceedsLargestTable(S))
           /\ \A i \in 1..Len(conflicts) :
                  conflicts[i].type = "capacity_violation"
                      => conflicts[i].severity = "critical"
    /\ (Returned /\ \E S \in SUBSET NameSet :
                        IsMustComponent(S) /\ ExceedsLargestTable(S))
           => result.plans = <<>>

\* a call that stopped on a must group of two or more too large for any table
C14_OversizedPairReported ==
    /\ Returned
    /\ \E S \in SUBSET guestNames :
           /\ Cardinality(S) >= 2
           /\ IsMustComponent(S)
           /\ ExceedsLargestTable(S)
           /\ ConflictsAbout("capacity_violation", S) # {}

\* the guest together with the guests of its adjacency list
AdjacencyCircle(g) == {g} \cup Range(adjacents[g])

\* the guest's party size plus the party sizes along its adjacency list
AdjacencySeats(g) ==
    CountOf(g) + SumSeq([i \in 1..Len(adjacents[g]) |-> CountOf(adjacents[g][i])])

\* C15: conflict detection, as generateSeatingPlans calls it, reports a
\* high-severity adjacency_violation conflict for every guest whose party size
\* plus the party sizes of its adjacency list exceeds the largest table, and at
\* most one for each set of affected guests.
C15_AdjacencyViolationReported ==
    "detect" \in ran =>
        /\ \A g \in DOMAIN adjacents :
               (\A t \in 1..Len(tables) : tables[t].seats < AdjacencySeats(g))
                   => \E i \in ConflictsAbout("adjacency_violation", AdjacencyCircle(g)) :
                          conflicts[i].severity = "high"
        /\ \A S \in SUBSET NameSet :
               Cardinality(ConflictsAbout("adjacency_violation", S)) <= 1

\* a conflict record without its identifier
WithoutId(c) ==
    [type |-> c.type, severity |-> c.severity, affectedGuests |-> c.affectedGuests]

ConflictSet(cs) == {WithoutId(cs[i]) : i \in 1..Len(cs)}

ThreeSinglesOneTable ==
    /\ Len(guests) = 3
    /\ \A i \in 1..Len(guests) : guests[i].count = 1
    /\ Len(tables) = 1
    /\ tables[1].seats = 3
    /\ constraints = <<>>
    /\ adjacents = <<>>
    /\ assignments = <<>>

\* C17: for three guests of party size 1, a single table of capacity 3 and no
\* constraints, adjacency or restrictions, the pool never holds more than one
\* plan and the call returns exactly one plan, which seats the three guests at
\* that table, and no error.
C17_SingleFeasiblePlanReturned ==
    ThreeSinglesOneTable =>
        /\ Len(plans) <= 1
        /\ Returned =>
               /\ Len(result.plans) = 1
               /\ Len(result.plans[1].tables) = 1
               /\ result.plans[1].tables[1].id = tables[1].id
               /\ Len(result.plans[1].tables[1].seats) = 3
               /\ Range(result.plans[1].tables[1].seats) = guestNames
               /\ result.errors = <<>>

\* the scenario's call returned after spending its whole attempt budget
C17_ScenarioReturned ==
    /\ ThreeSinglesOneTable
    /\ Returned
    /\ attempts = maxAttempts
    /\ Len(result.plans) = 1

\* C18: in every plan accepted by the search and in every returned plan, two
\* guests of different atomic groups with a cannot relation in at least one
\* direction sit at different tables.
C18_CannotAcrossGroupsApart ==
    \A p \in 1..Len(AcceptedAndReturned) :
        \A a, b \in guestNames :
            (/\ ~Connected(a, b)
             /\ Lookup(constraints, a, b) = "cannot" \/ Lookup(constraints, b, a) = "cannot")
                => TablesOfGuest(AcceptedAndReturned[p], a)
                       \cap TablesOfGuest(AcceptedAndReturned[p], b) = {}

\* a returned plan that separates a cannot pair whose restrictions name the
\* same table, so that the fallback step seated the second of them
C18_RestrictedPairSeparated ==
    /\ Len(ReturnedPlans) >= 1
    /\ \E a, b \in guestNames \cap DOMAIN assignments :
           /\ ~Connected(a, b)
           /\ Lookup(constraints, a, b) = "cannot"
           /\ AssignedIds(a) = AssignedIds(b)
           /\ Cardinality(AssignedIds(a)) = 1
           /\ TablesOfGuest(ReturnedPlans[1], a) # {}
           /\ TablesOfGuest(ReturnedPlans[1], a)
                  \cap TablesOfGuest(ReturnedPlans[1], b) = {}

\* the detection found conflicts, all of them circular or adjacency violations
OnlyNonCriticalConflicts ==
    /\ "detect" \in ran
    /\ conflicts # <<>>
    /\ \A i \in 1..Len(conflicts) :
           conflicts[i].type \in {"circular", "adjacency_violation"}

\* the returned messages other than the explanatory one of an empty search
SurfacedMessages ==
    {i \in 1..Len(result.errors) : result.errors[i].message # "no-valid-plans"}

\* C19: a call whose conflict detection found only circular or adjacency
\* conflicts still runs the search, and the messages it returns hold an entry
\* for each of those conflicts.
C19_NonCriticalConflictsSurfaced ==
    (Returned /\ OnlyNonCriticalConflicts) =>
        /\ "build" \in ran
        /\ Cardinality(SurfacedMessages) >= Len(conflicts)

\* the plans the next attempt of the loop can produce
NextCandidates ==
    {out.tables : out \in {o \in generateSinglePlan(atomicGroups, StrategyOf(attempts + 1)) :
                               o.placed}}

\* C20: during the search, a candidate of the next attempt that the filter
\* accepts against the current pool with the threshold of k accepted plans is
\* also accepted against that pool with the threshold of k + 1 accepted plans,
\* for every k below the premium target.
C20_AcceptanceKeptAsPoolGrows ==
    (pc = "searching" /\ LoopGuard) =>
        \A newTables \in NextCandidates :
            \A k \in 0..(MaxPlansPremium - 1) :
                isPlanSufficientlyUnique(newTables, plans, k)
                    => isPlanSufficientlyUnique(newTables, plans, k + 1)

\* every outcome of every strategy seats all groups
EveryAttemptPlaces ==
    \A i \in 1..Len(strategies) :
        \A o \in generateSinglePlan(atomicGroups, strategies[i]) : o.placed

\* C21: in a premium run, once the pool holds sixteen or more plans, the filter
\* accepts every plan a later attempt can produce; and when every attempt seats
\* all groups, such a run returns the target of thirty plans.
C21_FilterDisabledFromSixteen ==
    /\ (/\ isPremium /\ pc = "searching" /\ LoopGuard
        /\ Len(plans) >= ZeroThresholdAt /\ attempts > ZeroThresholdAt)
           => \A newTables \in NextCandidates :
                  isPlanSufficientlyUnique(newTables, plans, Len(plans))
    /\ (/\ isPremium /\ Returned /\ "build" \in ran
        /\ attempts >= MaxPlansPremium /\ EveryAttemptPlaces)
           => Len(result.plans) = MaxPlansPremium

\* two guests seated at a common table of the plan
CoSeated(plan, a, b) == TablesOfGuest(plan, a) \cap TablesOfGuest(plan, b) # {}

\* the sum of the party sizes of the guests the plan seats
Occupancy(plan) ==
    SumSeq([i \in 1..Len(guests) |->
               IF TablesOfGuest(plan, guests[i].name) # {} THEN guests[i].count ELSE 0])

\* the unordered co-seated pairs holding the relation in either direction
CoSeatedPairs(plan, kind) ==
    {S \in SUBSET guestNames :
        /\ Cardinality(S) = 2
        /\ \E a, b \in S :
               /\ a # b
               /\ CoSeated(plan, a, b)
               /\ Lookup(constraints, a, b) = kind \/ Lookup(constraints, b, a) = kind}

\* the adjacency preferences guest -> target whose target shares the table
AdjacencyKept(plan) ==
    {p \in guestNames \X guestNames :
        /\ p[1] \in DOMAIN adjacents
        /\ p[2] \in Range(adjacents[p[1]])
        /\ CoSeated(plan, p[1], p[2])}

expectedScore(plan) ==
    LET raw == SeatPoints * Occupancy(plan)
               + MustPoints * Cardinality(CoSeatedPairs(plan, "must"))
               - CannotPenalty * Cardinality(CoSeatedPairs(plan, "cannot"))
               + AdjacentPoints * Cardinality(AdjacencyKept(plan))
    IN IF raw < 0 THEN 0 ELSE raw

\* C22: the score of every accepted and every returned plan is
\* max(0, 10 * occupancy + 100 * co-seated must pairs - 200 * co-seated cannot
\* pairs + 50 * kept adjacency preferences), occupancy being the sum of the
\* party sizes of the seated guests; in particular it is never negative.
C22_ScoreFormula ==
    \A p \in 1..Len(AcceptedAndReturned) :
        /\ AcceptedAndReturned[p].score = expectedScore(AcceptedAndReturned[p])
        /\ AcceptedAndReturned[p].score >= 0

\* a step that completes a placement attempt, directly or after the timer
AttemptCompleted ==
    \/ pc = "searching" /\ pc' = "searching" /\ attempts' = attempts + 1
    \/ pc = "yielded" /\ pc' = "searching"

\* the strategy after s in the named order, the first following the last
SuccessorOf(s) ==
    LET i == CHOOSE k \in 1..Len(strategies) : strategies[k] = s
    IN strategies[(i % Len(strategies)) + 1]

\* C23: every attempt of a call uses one of the seven named strategies, and each
\* attempt after the first uses the strategy that follows its predecessor's in
\* the order shuffle, reverse, size-first, size-last, random-pairs,
\* priority-first, constraint-heavy-first, the first following the last; so
\* attempt n + 7 repeats the strategy of attempt n and seven consecutive
\* attempts use each strategy once.
C23_StrategiesRoundRobin ==
    [][AttemptCompleted =>
          /\ lastStrategy' \in Range(strategies)
          /\ Cardinality(Range(strategies)) = 7
          /\ lastStrategy # NoStrategy => lastStrategy' = SuccessorOf(lastStrategy)]_vars

\* a call of two parties that has gone round the strategies seven times and has
\* come back from its first timer
C23_AfterFirstYield ==
    /\ pc = "searching"
    /\ Len(guests) = 2
    /\ attempts = YieldEvery
    /\ lastStrategy = strategies[2]

\* the constraint-map entries of the named guests whose value is must or cannot
StatedConstraintEntries(names) ==
    {e \in names \X NameSet :
        /\ e[1] \in DOMAIN constraints
        /\ e[2] \in DOMAIN constraints[e[1]]
        /\ constraints[e[1]][e[2]] \in {"must", "cannot"}}

\* C24: once the atomic groups are built, the constraint density of every group
\* is the number of constraint-map entries of its members whose value is must
\* or cannot; entries holding the empty string are not counted.
C24_DensityCountsStatedConstraints ==
    "build" \in ran =>
        \A g \in 1..Len(atomicGroups) :
            atomicGroups[g].constraintCount
                = Cardinality(StatedConstraintEntries(Range(atomicGroups[g].units)))

\* the root find returns for a key
RootOf(key) == UFFind(ufState, key).root

\* C25: after any sequence of find, union and getGroups calls on a fresh
\* instance, two keys have the same root exactly when they are equal or related
\* by the symmetric transitive closure of the pairs passed to union (also when
\* the second find runs on the instance as the first has left it); find of a
\* root returns that root; and getGroups returns non-empty, duplicate-free,
\* pairwise disjoint lists that together hold exactly the keys ever passed to
\* find or union.
C25_UnionFindPartition ==
    /\ \A a, b \in UFKeys :
           /\ (RootOf(a) = RootOf(b)) <=> (a = b \/ <<a, b>> \in ufRelated)
           /\ UFFind(UFFind(ufState, a).uf, b).root = RootOf(b)
    /\ \A x \in UFKeys :
           UFFind(UFFind(ufState, x).uf, RootOf(x)).root = RootOf(x)
    /\ LET groups == UFGetGroups(ufState)
       IN /\ UNION {Range(groups[g]) : g \in 1..Len(groups)} = ufTouched
          /\ \A g \in 1..Len(groups) :
                 /\ groups[g] # <<>>
                 /\ Cardinality(Range(groups[g])) = Len(groups[g])
          /\ \A g, h \in 1..Len(groups) :
                 g # h => Range(groups[g]) \cap Range(groups[h]) = {}

\* an instance holding all four keys in one group, with a key two links away
\* from its root
C25_TwoLinkChain ==
    /\ ufTouched = UFKeys
    /\ \A a, b \in UFKeys : RootOf(a) = RootOf(b)
    /\ \E k \in UFKeys :
           /\ ufState.parent[k] # k
           /\ ufState.parent[ufState.parent[k]] # ufState.parent[k]

\* C26: after any sequence of grid selections, must-field edits, REMOVE_ADJACENT,
\* REMOVE_GUEST and RENAME_GUEST, every adjacency list has at most two entries.
C26_AdjacencyDegreeAtMostTwo ==
    \A g \in DOMAIN adjacents : Len(adjacents[g]) <= 2

\* C27: a step that completes a placement attempt leaves the atomic group list,
\* the guests, the tables, the constraint, adjacency and assignment maps as
\* they were, and keeps every plan already in the pool, in place and unchanged.
C27_AttemptSharesNoState ==
    [][AttemptCompleted =>
          /\ atomicGroups' = atomicGroups
          /\ inputVars' = inputVars
          /\ Len(plans') >= Len(plans)
          /\ \A i \in 1..Len(plans) : plans'[i] = plans[i]]_vars

\* a call on two groups that has tried every strategy and holds two plans
C27_SecondPlanAfterAllStrategies ==
    /\ pc = "searching"
    /\ Len(atomicGroups) >= 2
    /\ attempts > Len(strategies)
    /\ Len(plans) >= 2

\* the two plans put every guest of the call at the same tables
SameAssignment(p, q) ==
    \A name \in NamesOf(guests) : TablesOfGuest(p, name) = TablesOfGuest(q, name)

\* C28: no two plans of the list a call returns put every guest at the same
\* table, whatever the input, the empty guest list included.
C28_ReturnedPlansPairwiseDistinct ==
    Returned =>
        \A i, j \in 1..Len(result.plans) :
            i # j => ~SameAssignment(result.plans[i], result.plans[j])

\* attempt number n of the call can end without seating every group
AttemptCanFail(n) ==
    \E o \in generateSinglePlan(atomicGroups, StrategyOf(n)) : ~o.placed

C30_StoredPlansFromCurrentState ==
    seatingPlans # <<>> => seatingPlansFrom = stateConstraints

====
